---- MODULE Spec2Model ----
(***************************************************************************)
(* Model of the confio/mask contract (src/src/contract.rs): one persisted  *)
(* Owner Record, two gated handle requests (ReflectMsg = Forward,          *)
(* ChangeOwner = TransferOwnership) and one query (GetOwner).              *)
(*                                                                         *)
(* Addresses are byte strings.  A human-readable address is a text of      *)
(* non-NUL bytes; a canonical address is a byte string of exactly CanonLen *)
(* bytes.  The host Api converts between the two: canonical_address pads   *)
(* the text with NUL bytes (and fails when the text is too long),          *)
(* human_address drops the NUL bytes.                                      *)
(***************************************************************************)
EXTENDS Integers, Sequences, FiniteSets

\* ---------------------------------------------------------------- bounds
\* largest byte value used in a human-readable address (0 is the NUL pad)
MaxByte == 1
\* length of a canonical address (the tests use dependencies(20))
CanonLen == 2
\* number of distinct opaque CosmosMsg payloads
MaxMsg == 4

VARIABLES
    storage,   \* deps.storage: key-value map, DOMAIN \subseteq {CONFIG_KEY}
    last,      \* the most recent entry-point call: request, pre-store, result
               \* and the Api capabilities it consulted
    inited,    \* TRUE once an init call has returned Ok
    script,    \* scripted runs only: the sequence of calls to issue
    pc,        \* scripted runs only: index of the next call of the script
    out        \* scripted runs only: the results returned so far

vars == <<storage, last, inited, script, pc, out>>

\* ------------------------------------------------------------ data types
Bytes == 1..MaxByte
\* HumanAddr values a caller can put in a request (one byte longer than fits)
HumanAddrs == UNION {[1..n -> Bytes] : n \in 0..(CanonLen + 1)}
\* opaque outgoing messages
CosmosMsgs == 1..MaxMsg

None == "None"

\* Result<T>
Ok(v) == [tag |-> "Ok", val |-> v]
Err(k) == [tag |-> "Err", kind |-> k]
IsOk(r) == r.tag = "Ok"
IsErr(r, k) == r.tag = "Err" /\ r.kind = k

\* errors::unauthorized()
unauthorized == Err("Unauthorized")

\* Response { messages, log, data }
Response(msgs, log, data) == [messages |-> msgs, log |-> log, data |-> data]
\* Response::default()
ResponseDefault == Response(<<>>, None, None)

\* State { owner }
State(owner) == [owner |-> owner]
\* OwnerResponse { owner }
OwnerResponse(owner) == [owner |-> owner]

\* ------------------------------------------------------------- host Api
\* Api::canonical_address: the text padded with NUL bytes to CanonLen;
\* a text longer than CanonLen cannot be converted.
canonical_address(human) ==
    IF Len(human) > CanonLen
    THEN Err("AddressConversion")
    ELSE Ok([i \in 1..CanonLen |-> IF i <= Len(human) THEN human[i] ELSE 0])

\* Api::human_address: the canonical bytes without the NUL bytes.
human_address(canonical) ==
    Ok(SelectSeq(canonical, LAMBDA b : b # 0))

\* human addresses the host can canonicalize
ValidHumans == {h \in HumanAddrs : IsOk(canonical_address(h))}
\* mock_params(&deps.api, signer, ..): the signer arrives in canonical form
Signers == {canonical_address(h).val : h \in ValidHumans}

\* ----------------------------------------------------------- state model
CONFIG_KEY == "config"
EmptyStorage == [k \in {} |-> None]

\* one use of a host Api capability during a call
ApiCall(fn, arg) == [fn |-> fn, arg |-> arg]

\* what an operation hands back: the store it leaves, its result, and the
\* Api capabilities it consulted on the way, in order
OutcomeApi(st, res, api) == [storage |-> st, res |-> res, api |-> api]
\* an operation that consulted no Api capability
Outcome(st, res) == OutcomeApi(st, res, <<>>)

\* what running a closure yields: its result and the Api capabilities it
\* consulted
Ran(res, api) == [res |-> res, api |-> api]

\* singleton.load(): NotFound when the key is absent
load(st) ==
    IF CONFIG_KEY \in DOMAIN st THEN Ok(st[CONFIG_KEY]) ELSE Err("NotFound")

\* singleton.save(&state): writes the record under the fixed key
save(st, state) ==
    Outcome([k \in DOMAIN st \cup {CONFIG_KEY} |->
                IF k = CONFIG_KEY THEN state ELSE st[k]], Ok(state))

\* the records a closure handed to update can be applied to
Stored(st) == {st[k] : k \in DOMAIN st}

\* singleton.update(action): load, apply action, save only if action is Ok
\* (action is the closure, as a function of the loaded record)
update(st, action) ==
    LET input == load(st) IN
    IF ~IsOk(input) THEN Outcome(st, input)
    ELSE LET output == action[input.val] IN
         IF ~IsOk(output.res) THEN OutcomeApi(st, output.res, output.api)
         ELSE LET saved == save(st, output.res.val) IN
              OutcomeApi(saved.storage, saved.res, output.api)

\* ------------------------------------------------------------- contract
\* init that never writes the record
init_no_save(st, signer) ==
    Outcome(st, Ok(ResponseDefault))

\* init that refuses to overwrite an existing record
init_guarded(st, signer) ==
    IF IsOk(load(st)) THEN Outcome(st, Ok(ResponseDefault))
    ELSE Outcome(save(st, State(signer)).storage, Ok(ResponseDefault))

\* init: saves State { owner: signer } and returns Response::default()
init(st, signer) ==
    LET state == State(signer)
        saved == save(st, state)
    IN  IF ~IsOk(saved.res) THEN Outcome(st, saved.res)
        ELSE Outcome(saved.storage, Ok(ResponseDefault))

\* try_reflect without the signer check
try_reflect_no_auth(st, signer, msg) ==
    LET state == load(st) IN
    IF ~IsOk(state) THEN Outcome(st, state)
    ELSE Outcome(st, Ok(Response(<<msg>>, None, None)))

\* try_reflect that records a rejected signer as the owner
try_reflect_writes(st, signer, msg) ==
    LET state == load(st) IN
    IF ~IsOk(state) THEN Outcome(st, state)
    ELSE IF signer # state.val.owner
         THEN Outcome(save(st, State(signer)).storage, unauthorized)
    ELSE Outcome(st, Ok(Response(<<msg>>, None, None)))

\* try_reflect that refuses one particular message payload
try_reflect_inspects(st, signer, msg) ==
    LET state == load(st) IN
    IF ~IsOk(state) THEN Outcome(st, state)
    ELSE IF signer # state.val.owner \/ msg = 1
         THEN Outcome(st, unauthorized)
    ELSE Outcome(st, Ok(Response(<<msg>>, None, None)))

\* try_reflect: load, compare signer with state.owner, forward msg
try_reflect(st, signer, msg) ==
    LET state == load(st) IN
    IF ~IsOk(state) THEN Outcome(st, state)
    ELSE IF signer # state.val.owner THEN Outcome(st, unauthorized)
    ELSE Outcome(st, Ok(Response(<<msg>>, None, None)))

\* the closure that converts the address first, holds the result, checks
\* the signer, and only then unwraps the conversion
change_owner_action_consult_first(signer, owner, state) ==
    LET canon == canonical_address(owner)
        api == <<ApiCall("canonical_address", owner)>>
    IN  IF signer # state.owner THEN Ran(unauthorized, api)
        ELSE IF ~IsOk(canon) THEN Ran(canon, api)
        ELSE Ran(Ok([state EXCEPT !.owner = canon.val]), api)

\* the closure handed to update in try_change_owner: the signer check
\* returns before api.canonical_address is reached
change_owner_action(signer, owner, state) ==
    IF signer # state.owner THEN Ran(unauthorized, <<>>)
    ELSE LET canon == canonical_address(owner)
             api == <<ApiCall("canonical_address", owner)>>
         IN  IF ~IsOk(canon) THEN Ran(canon, api)
             ELSE Ran(Ok([state EXCEPT !.owner = canon.val]), api)

\* try_change_owner without the signer check
try_change_owner_no_auth(st, signer, owner) ==
    LET canon == canonical_address(owner)
        api == <<ApiCall("canonical_address", owner)>>
        action == [state \in Stored(st) |->
                      IF ~IsOk(canon) THEN Ran(canon, api)
                      ELSE Ran(Ok([state EXCEPT !.owner = canon.val]), api)]
        upd == update(st, action)
    IN  IF ~IsOk(upd.res) THEN upd
        ELSE OutcomeApi(upd.storage, Ok(ResponseDefault), upd.api)

\* try_change_owner that writes the new owner before it checks the signer
try_change_owner_partial(st, signer, owner) ==
    LET state == load(st)
        canon == canonical_address(owner)
        api == <<ApiCall("canonical_address", owner)>>
    IN  IF ~IsOk(state) THEN Outcome(st, state)
        ELSE IF ~IsOk(canon) THEN OutcomeApi(st, canon, api)
        ELSE IF signer # state.val.owner
             THEN OutcomeApi(save(st, State(canon.val)).storage,
                             unauthorized, api)
        ELSE OutcomeApi(save(st, State(canon.val)).storage,
                        Ok(ResponseDefault), api)

\* try_change_owner that creates the record when none is stored
try_change_owner_upsert(st, signer, owner) ==
    LET action == [state \in Stored(st) |->
                      change_owner_action(signer, owner, state)]
        upd == update(st, action)
        canon == canonical_address(owner)
    IN  IF ~IsOk(load(st)) /\ IsOk(canon)
        THEN Outcome(save(st, State(canon.val)).storage, Ok(ResponseDefault))
        ELSE IF ~IsOk(upd.res) THEN upd
        ELSE OutcomeApi(upd.storage, Ok(ResponseDefault), upd.api)

\* try_change_owner: update with the closure, then Response::default()
try_change_owner(st, signer, owner) ==
    LET action == [state \in Stored(st) |->
                      change_owner_action(signer, owner, state)]
        upd == update(st, action)
    IN  IF ~IsOk(upd.res) THEN upd
        ELSE OutcomeApi(upd.storage, Ok(ResponseDefault), upd.api)

\* HandleMsg::ReflectMsg { msg } and HandleMsg::ChangeOwner { owner }
ReflectMsg(msg) == [type |-> "ReflectMsg", msg |-> msg]
ChangeOwner(owner) == [type |-> "ChangeOwner", owner |-> owner]
HandleMsgs == {ReflectMsg(m) : m \in CosmosMsgs}
                \cup {ChangeOwner(h) : h \in HumanAddrs}

\* handle: dispatch on the request variant
handle(st, signer, msg) ==
    IF msg.type = "ReflectMsg" THEN try_reflect(st, signer, msg.msg)
    ELSE try_change_owner(st, signer, msg.owner)

\* query_owner that reports the stored canonical bytes unconverted
query_owner_raw(st) ==
    LET state == load(st) IN
    IF ~IsOk(state) THEN Outcome(st, state)
    ELSE Outcome(st, Ok(OwnerResponse(state.val.owner)))

\* query_owner that normalises the stored record while reading it
query_owner_writes(st) ==
    LET state == load(st) IN
    IF ~IsOk(state) THEN Outcome(st, state)
    ELSE LET human == human_address(state.val.owner) IN
         Outcome(save(st, State(human.val)).storage,
                 Ok(OwnerResponse(human.val)))

\* query_owner: load, convert the owner to human form, serialize
query_owner(st) ==
    LET state == load(st) IN
    IF ~IsOk(state) THEN Outcome(st, state)
    ELSE LET human == human_address(state.val.owner)
             api == <<ApiCall("human_address", state.val.owner)>>
         IN  IF ~IsOk(human) THEN OutcomeApi(st, human, api)
             ELSE OutcomeApi(st, Ok(OwnerResponse(human.val)), api)

\* query: the only variant is GetOwner
query(st) == query_owner(st)

\* ------------------------------------------------------ calls and traces
InitCall(signer) == [op |-> "init", signer |-> signer]
HandleCall(signer, msg) == [op |-> "handle", signer |-> signer, msg |-> msg]
QueryCall == [op |-> "query"]

\* the host runs one call to completion
Run(st, call) ==
    IF call.op = "init" THEN init(st, call.signer)
    ELSE IF call.op = "handle" THEN handle(st, call.signer, call.msg)
    ELSE query(st)

NoCall == [call |-> [op |-> "none"], pre |-> EmptyStorage,
           res |-> Err("NoCall"), api |-> <<>>]

\* the state change of one call made by the host
Call(call) ==
    LET o == Run(storage, call) IN
    /\ storage' = o.storage
    /\ last' = [call |-> call, pre |-> storage, res |-> o.res,
                api |-> o.api]
    /\ inited' = (inited \/ (call.op = "init" /\ IsOk(o.res)))

\* ---------------------------------------------------- free specification
Init ==
    /\ storage = EmptyStorage
    /\ last = NoCall
    /\ inited = FALSE
    /\ script = <<>>
    /\ pc = 1
    /\ out = <<>>

CallInit ==
    /\ \E s \in Signers : Call(InitCall(s))
    /\ UNCHANGED <<script, pc, out>>

CallHandle ==
    /\ \E s \in Signers, m \in HandleMsgs : Call(HandleCall(s, m))
    /\ UNCHANGED <<script, pc, out>>

CallQuery ==
    /\ Call(QueryCall)
    /\ UNCHANGED <<script, pc, out>>

Next == CallInit \/ CallHandle \/ CallQuery

Spec == Init /\ [][Next]_vars

\* ------------------------------------------------ scripted specification
\* mock_params(&deps.api, name, ..).message.signer
SignerOf(name) == canonical_address(name).val

\* the scenario of the spec's section 8: init by creator, query, Forward by
\* creator, TransferOwnership{bob} by creator, Forward by creator, Forward
\* by bob
ScenarioScript(creator, bob, m) ==
    [kind |-> "scenario", creator |-> creator, bob |-> bob, m |-> m,
     calls |-> << InitCall(SignerOf(creator)),
                  QueryCall,
                  HandleCall(SignerOf(creator), ReflectMsg(m)),
                  HandleCall(SignerOf(creator), ChangeOwner(bob)),
                  HandleCall(SignerOf(creator), ReflectMsg(m)),
                  HandleCall(SignerOf(bob), ReflectMsg(m)) >>]

\* from owner O: TransferOwnership{X} by O, TransferOwnership{X} by X, then
\* TransferOwnership{T} by O
IdemScript(O, X, T) ==
    [kind |-> "idem", O |-> O, X |-> X, T |-> T,
     calls |-> << InitCall(SignerOf(O)),
                  HandleCall(SignerOf(O), ChangeOwner(X)),
                  HandleCall(SignerOf(X), ChangeOwner(X)),
                  HandleCall(SignerOf(O), ChangeOwner(T)) >>]

Scripts ==
    {ScenarioScript(c, b, m) :
        <<c, b, m>> \in {t \in ValidHumans \X ValidHumans \X CosmosMsgs :
                            t[1] # t[2]}}
    \cup {IdemScript(O, X, T) :
        <<O, X, T>> \in ValidHumans \X ValidHumans \X HumanAddrs}

InitScript ==
    /\ storage = EmptyStorage
    /\ last = NoCall
    /\ inited = FALSE
    /\ script \in Scripts
    /\ pc = 1
    /\ out = <<>>

\* the host issues the next call of the script
ScriptCall(op) ==
    /\ pc <= Len(script.calls)
    /\ script.calls[pc].op = op
    /\ Call(script.calls[pc])
    /\ out' = Append(out, last'.res)
    /\ pc' = pc + 1
    /\ UNCHANGED script

ScriptInit == ScriptCall("init")
ScriptHandle == ScriptCall("handle")
ScriptQuery == ScriptCall("query")

NextScript == ScriptInit \/ ScriptHandle \/ ScriptQuery

SpecScript == InitScript /\ [][NextScript]_vars

\* ------------------------------------------------- vocabulary of claims
Initialized(st) == CONFIG_KEY \in DOMAIN st
OwnerOf(st) == st[CONFIG_KEY].owner

LastIsInit == last.call.op = "init"
LastIsQuery == last.call.op = "query"
LastIsHandle == last.call.op = "handle"
LastIsForward == LastIsHandle /\ last.call.msg.type = "ReflectMsg"
LastIsTransfer == LastIsHandle /\ last.call.msg.type = "ChangeOwner"
\* the answer a GetOwner query gives on store st
GetOwner(st) == query(st).res

\* --------------------------------------------------------------- claims

\* C1: in an initialized state with owner O, Forward{M} signed by O returns
\* Ok with messages = <<M>>, no log and no data; signed by anyone else it
\* returns Unauthorized (no response, so no message) and the store still
\* holds owner O.
C1_ForwardGate ==
    (LastIsForward /\ Initialized(last.pre)) =>
        IF last.call.signer = OwnerOf(last.pre)
        THEN /\ IsOk(last.res)
             /\ last.res.val.messages = <<last.call.msg.msg>>
             /\ last.res.val.log = None
             /\ last.res.val.data = None
        ELSE /\ IsErr(last.res, "Unauthorized")
             /\ Initialized(storage)
             /\ OwnerOf(storage) = OwnerOf(last.pre)

C1_Witness ==
    /\ LastIsForward /\ Initialized(last.pre)
    /\ last.call.signer # OwnerOf(last.pre)
    /\ IsErr(last.res, "Unauthorized")

\* C2: in an initialized state with owner O and for a target address new the
\* host can canonicalize, TransferOwnership{new} signed by O returns the
\* empty response and GetOwner then answers new; signed by anyone else it
\* returns Unauthorized and GetOwner still answers the human form of O.
C2_TransferThenQuery ==
    (/\ LastIsTransfer /\ Initialized(last.pre)
     /\ last.call.msg.owner \in ValidHumans) =>
        IF last.call.signer = OwnerOf(last.pre)
        THEN /\ IsOk(last.res)
             /\ last.res.val = ResponseDefault
             /\ IsOk(GetOwner(storage))
             /\ GetOwner(storage).val = OwnerResponse(last.call.msg.owner)
        ELSE /\ IsErr(last.res, "Unauthorized")
             /\ IsOk(GetOwner(storage))
             /\ GetOwner(storage) = GetOwner(last.pre)
             /\ canonical_address(GetOwner(storage).val.owner)
                    = Ok(OwnerOf(last.pre))

C2_Witness ==
    /\ LastIsTransfer /\ Initialized(last.pre)
    /\ last.call.msg.owner \in ValidHumans
    /\ last.call.signer = OwnerOf(last.pre)
    /\ Len(last.call.msg.owner) < CanonLen
    /\ canonical_address(last.call.msg.owner).val # OwnerOf(last.pre)
    /\ IsOk(last.res)

\* C3 as stated: the record is created by a successful init and never goes
\* away, and once it exists the store changes only in a step that is a
\* successful TransferOwnership (no later init changes it).
C3_Original ==
    [][/\ Initialized(storage) => Initialized(storage')
       /\ storage' # storage =>
            IF ~Initialized(storage)
            THEN last'.call.op = "init" /\ IsOk(last'.res)
            ELSE /\ last'.call.op = "handle"
                 /\ last'.call.msg.type = "ChangeOwner"
                 /\ IsOk(last'.res)]_vars

\* C3 amended: the record is created by a successful init and never goes
\* away, and once it exists the store changes only in a step that is a
\* successful TransferOwnership or a successful init (a later init call
\* overwrites the owner with its signer); Forward, query and failed calls
\* never change it.
C3_OwnerChanges ==
    [][/\ Initialized(storage) => Initialized(storage')
       /\ storage' # storage =>
            /\ IsOk(last'.res)
            /\ IF ~Initialized(storage)
               THEN last'.call.op = "init"
               ELSE \/ last'.call.op = "init"
                    \/ /\ last'.call.op = "handle"
                       /\ last'.call.msg.type = "ChangeOwner"
                       /\ last'.call.signer = OwnerOf(storage)]_vars

C3_Witness ==
    /\ LastIsInit /\ Initialized(last.pre)
    /\ IsOk(last.res)
    /\ storage # last.pre

\* C4: init signed by S returns Ok with zero messages from every pre-state
\* of the store, and leaves a record with owner = S, so that GetOwner
\* answers the human form of S.
C4_InitSetsOwner ==
    LastIsInit =>
        /\ IsOk(last.res)
        /\ Len(last.res.val.messages) = 0
        /\ Initialized(storage)
        /\ OwnerOf(storage) = last.call.signer
        /\ IsOk(GetOwner(storage))
        /\ canonical_address(GetOwner(storage).val.owner)
               = Ok(last.call.signer)

C4_Witness ==
    /\ LastIsInit /\ Initialized(last.pre)
    /\ OwnerOf(last.pre) # last.call.signer
    /\ OwnerOf(storage) = last.call.signer

\* C5: while no record is stored, GetOwner, Forward and TransferOwnership
\* all return NotFound (never Unauthorized), whatever the signer and the
\* payload, and the store stays empty.
C5_UninitializedNotFound ==
    (~Initialized(last.pre) /\ (LastIsHandle \/ LastIsQuery)) =>
        /\ IsErr(last.res, "NotFound")
        /\ storage = last.pre
        /\ ~Initialized(storage)

C5_Witness ==
    /\ ~Initialized(last.pre)
    /\ LastIsTransfer
    /\ last.call.msg.owner \in ValidHumans
    /\ IsErr(last.res, "NotFound")

\* C6: a handle or query call that returns an error leaves the store equal
\* to its pre-call value; a TransferOwnership signed by the owner whose
\* target cannot be canonicalized returns AddressConversion and the store
\* is unchanged.
C6_ErrorsWriteNothing ==
    /\ ((LastIsHandle \/ LastIsQuery) /\ ~IsOk(last.res)) =>
            storage = last.pre
    /\ (/\ LastIsTransfer /\ Initialized(last.pre)
        /\ last.call.signer = OwnerOf(last.pre)
        /\ last.call.msg.owner \notin ValidHumans) =>
            /\ IsErr(last.res, "AddressConversion")
            /\ storage = last.pre

C6_Witness ==
    /\ LastIsTransfer /\ Initialized(last.pre)
    /\ last.call.signer = OwnerOf(last.pre)
    /\ last.call.msg.owner \notin ValidHumans
    /\ IsErr(last.res, "AddressConversion")

\* C7: once an init has succeeded the store holds exactly one record, its
\* owner is a canonical address, and GetOwner never answers NotFound.
C7_RecordPersists ==
    inited =>
        /\ DOMAIN storage = {CONFIG_KEY}
        /\ DOMAIN storage[CONFIG_KEY] = {"owner"}
        /\ OwnerOf(storage) \in [1..CanonLen -> 0..MaxByte]
        /\ ~IsErr(GetOwner(storage), "NotFound")

C7_Witness ==
    /\ inited
    /\ LastIsHandle
    /\ ~IsOk(last.res)
    /\ Initialized(last.pre)
    /\ Initialized(storage)

\* C10: Forward never writes the store, whether it returns Ok, Unauthorized
\* or NotFound.
C10_ForwardFrame ==
    LastIsForward => storage = last.pre

C10_Witness ==
    /\ LastIsForward
    /\ Initialized(last.pre)
    /\ last.call.signer # OwnerOf(last.pre)
    /\ storage = last.pre

\* C8 as stated, for all identities O and X: from owner O,
\* TransferOwnership{X} by O succeeds, TransferOwnership{X} by X succeeds
\* and the owner is then X; a third TransferOwnership by O fails with
\* Unauthorized and the owner stays X.
C8_Original ==
    script.kind = "idem" =>
        /\ pc > 2 => IsOk(out[2])
        /\ pc > 3 => IsOk(out[3]) /\ OwnerOf(storage) = SignerOf(script.X)
        /\ pc > 4 => /\ IsErr(out[4], "Unauthorized")
                     /\ OwnerOf(storage) = SignerOf(script.X)

\* C8 amended, for all identities O and X with X # O: from owner O,
\* TransferOwnership{X} by O succeeds, TransferOwnership{X} by X succeeds
\* and the owner is then X; a third TransferOwnership by O (whatever its
\* target) fails with Unauthorized and the owner stays X.
C8_TransferTwice ==
    (script.kind = "idem" /\ script.O # script.X) =>
        /\ pc > 2 => IsOk(out[2])
        /\ pc = 3 => OwnerOf(storage) = SignerOf(script.X)
        /\ pc > 3 => IsOk(out[3]) /\ OwnerOf(storage) = SignerOf(script.X)
        /\ pc > 4 => /\ IsErr(out[4], "Unauthorized")
                     /\ OwnerOf(storage) = SignerOf(script.X)

C8_Witness ==
    /\ script.kind = "idem" /\ script.O # script.X
    /\ pc = 5
    /\ IsOk(out[2]) /\ IsOk(out[3])
    /\ IsErr(out[4], "Unauthorized")
    /\ OwnerOf(storage) = SignerOf(script.X)

\* C9: the scenario init(creator); GetOwner; Forward{M} by creator;
\* TransferOwnership{bob} by creator; Forward{M} by creator; Forward{M} by
\* bob returns, in order: Ok; owner creator; Ok with messages = <<M>>; Ok;
\* Unauthorized; Ok with messages = <<M>>.
C9_Scenario ==
    script.kind = "scenario" =>
        /\ pc > 1 => IsOk(out[1])
        /\ pc > 2 => out[2] = Ok(OwnerResponse(script.creator))
        /\ pc > 3 => IsOk(out[3]) /\ out[3].val.messages = <<script.m>>
        /\ pc > 4 => IsOk(out[4])
        /\ pc > 5 => IsErr(out[5], "Unauthorized")
        /\ pc > 6 => IsOk(out[6]) /\ out[6].val.messages = <<script.m>>

C9_Witness ==
    /\ script.kind = "scenario"
    /\ pc = 7
    /\ IsErr(out[5], "Unauthorized")
    /\ IsOk(out[6])
    /\ OwnerOf(storage) = SignerOf(script.bob)

\* the signers for which handle(msg) returns Ok on store st
Authorized(st, msg) ==
    {s \in Signers : IsOk(handle(st, s, msg).res)}

\* C11: in every initialized state Forward and TransferOwnership (with a
\* canonicalizable target) succeed for the same signers, namely exactly the
\* owner stored at that moment; a call just made was decided against the
\* owner stored before it, and a signer who has transferred ownership to
\* another identity is no longer authorized.
C11_CurrentOwnerOnly ==
    /\ Initialized(storage) =>
         /\ \A m \in CosmosMsgs :
                Authorized(storage, ReflectMsg(m)) = {OwnerOf(storage)}
         /\ \A h \in ValidHumans :
                Authorized(storage, ChangeOwner(h)) = {OwnerOf(storage)}
    /\ (/\ LastIsHandle /\ Initialized(last.pre)
        /\ (LastIsTransfer => last.call.msg.owner \in ValidHumans)) =>
            /\ IsOk(last.res) <=> last.call.signer = OwnerOf(last.pre)
            /\ (IsOk(last.res) /\ OwnerOf(storage) # last.call.signer) =>
                 \A msg \in HandleMsgs :
                    ~IsOk(handle(storage, last.call.signer, msg).res)

C11_Witness ==
    /\ LastIsTransfer /\ Initialized(last.pre)
    /\ IsOk(last.res)
    /\ OwnerOf(storage) # last.call.signer
    /\ last.call.signer \notin Authorized(storage, ReflectMsg(1))
    /\ OwnerOf(storage) \in Authorized(storage, ReflectMsg(1))

\* C12: in TransferOwnership the signer check comes before the address
\* conversion: a signer other than the stored owner gets Unauthorized even
\* when the target cannot be canonicalized, and the call consults no Api
\* capability at all (canonical_address is never called); the conversion
\* error is returned only to the stored owner, for whom canonical_address
\* is consulted exactly once, on the target of the request.
C12_AuthBeforeConversion ==
    (LastIsTransfer /\ Initialized(last.pre)) =>
        /\ last.call.signer # OwnerOf(last.pre) =>
                /\ IsErr(last.res, "Unauthorized")
                /\ last.api = <<>>
        /\ last.call.signer = OwnerOf(last.pre) =>
                last.api = <<ApiCall("canonical_address",
                                     last.call.msg.owner)>>
        /\ IsErr(last.res, "AddressConversion") =>
                /\ last.call.signer = OwnerOf(last.pre)
                /\ ~IsOk(canonical_address(last.call.msg.owner))

C12_Witness ==
    /\ LastIsTransfer /\ Initialized(last.pre)
    /\ last.call.signer # OwnerOf(last.pre)
    /\ ~IsOk(canonical_address(last.call.msg.owner))
    /\ IsErr(last.res, "Unauthorized")
    /\ last.api = <<>>

\* C13: GetOwner never writes the store; it has no signer, so after any
\* call by any signer it answers the same for a given store; in an
\* initialized state it returns the human-readable form of the owner stored
\* at that moment, and its only errors are NotFound (exactly when no record
\* is stored), AddressConversion and Serialize.
C13_QueryReadOnly ==
    /\ LastIsQuery =>
        /\ storage = last.pre
        /\ IsOk(last.res) <=> Initialized(last.pre)
        /\ IsOk(last.res) =>
              /\ DOMAIN last.res.val = {"owner"}
              /\ Ok(last.res.val.owner) = human_address(OwnerOf(last.pre))
              /\ canonical_address(last.res.val.owner)
                     = Ok(OwnerOf(last.pre))
        /\ ~IsOk(last.res) =>
              /\ last.res.kind
                    \in {"NotFound", "AddressConversion", "Serialize"}
              /\ IsErr(last.res, "NotFound") <=> ~Initialized(last.pre)
    /\ Initialized(storage) =>
        /\ IsOk(GetOwner(storage))
        /\ query(storage).storage = storage
        /\ canonical_address(GetOwner(storage).val.owner)
               = Ok(OwnerOf(storage))

C13_Witness ==
    /\ LastIsQuery /\ Initialized(last.pre)
    /\ IsOk(last.res)
    /\ last.res.val.owner # OwnerOf(last.pre)
    /\ storage = last.pre

\* C14: a Forward call made with message M and the same call made with any
\* other message M2 from the same store and signer have the same outcome:
\* both Ok or both the same error, the same store afterwards, and on Ok
\* responses that are <<M>> and <<M2>> and agree on log and data.
C14_MessageOpaque ==
    LastIsForward =>
        \A m2 \in CosmosMsgs :
            LET o2 == handle(last.pre, last.call.signer, ReflectMsg(m2)) IN
            /\ o2.res.tag = last.res.tag
            /\ o2.storage = storage
            /\ ~IsOk(last.res) => o2.res.kind = last.res.kind
            /\ IsOk(last.res) =>
                  /\ last.res.val.messages = <<last.call.msg.msg>>
                  /\ o2.res.val.messages = <<m2>>
                  /\ o2.res.val.log = last.res.val.log
                  /\ o2.res.val.data = last.res.val.data

C14_Witness ==
    /\ LastIsForward /\ Initialized(last.pre)
    /\ IsOk(last.res)
    /\ last.call.msg.msg # 1
    /\ IsOk(handle(last.pre, last.call.signer, ReflectMsg(1)).res)

====
